---- MODULE Spec2Model ----
(***************************************************************************)
(* A model of main.py, the Wozo chatbot API: the tokenizer, the row        *)
(* scorer, the matcher and the /api/message handler with its two Supabase  *)
(* calls.                                                                  *)
(*                                                                         *)
(* Representation.  A Python str is a sequence of one-character strings,   *)
(* so that lower-casing, the regular-expression substitution, splitting,   *)
(* joining and the substring test are computed character by character.     *)
(* A value that may be None is a sequence of length at most one: <<>> is   *)
(* None and <<v>> is the value v.  A dict is a function from its keys; a   *)
(* key that is absent is outside its DOMAIN.  A float score is held in     *)
(* units of 0.5 (every score is a sum of 1.0 and 0.5 terms), so 1.0 is 2   *)
(* and the threshold 2 is 4 units.                                         *)
(***************************************************************************)
EXTENDS Integers, Sequences, FiniteSets, TLC

VARIABLES
    pc,                \* handle_message: "idle", "fetch", "log" or "done"
    payload,           \* the MessageIn of the request
    message_text,      \* local of handle_message (None until bound)
    faq_rows,          \* local of handle_message (None until bound)
    best,              \* local of handle_message (None until bound)
    ranked,            \* local of handle_message (None until bound)
    response_payload,  \* local of handle_message (None until bound)
    status,            \* HTTP status of the reply, 0 while there is none
    returned,          \* body of a 200 reply (None otherwise)
    fetch_raised,      \* whether fetch_faq raised
    insert_raised,     \* whether insert_conversation raised
    conversations,     \* rows stored in the conversations table
    tk_text,           \* tokenizer run: the argument
    tk_out,            \* tokenizer run: the result (None until it returns)
    sc_query,          \* scorer run: query_tokens
    sc_row,            \* scorer run: row
    sc_out             \* scorer run: the result (None until it returns)

handler_vars == <<pc, payload, message_text, faq_rows, best, ranked,
                  response_payload, status, returned, fetch_raised,
                  insert_raised, conversations>>
tk_vars == <<tk_text, tk_out>>
sc_vars == <<sc_query, sc_row, sc_out>>
vars == <<handler_vars, tk_vars, sc_vars>>

\* ------------------------------------------------------------ Python values

None == <<>>
Some(v) == <<v>>
IsNone(o) == Len(o) = 0
Val(o) == o[1]

\* dict.get(key): None when the key is absent.
Get(row, key) == IF key \in DOMAIN row THEN row[key] ELSE None

\* dict.get(key, default): the default only when the key is absent.
GetDefault(row, key, default) ==
    IF key \in DOMAIN row THEN row[key] ELSE Some(default)

\* Truth value of an optional str or list: None and the empty one are false.
Truthy(o) == ~IsNone(o) /\ Len(Val(o)) > 0

\* x or y, for an optional str or list x.
OrElse(o, default) == IF Truthy(o) THEN Val(o) ELSE default

\* ------------------------------------------------------------ characters

UPPER == <<"A","B","C","D","E","F","G","H","I","J","K","L","M",
           "N","O","P","Q","R","S","T","U","V","W","X","Y","Z","É","À","Ç">>
LOWER == <<"a","b","c","d","e","f","g","h","i","j","k","l","m",
           "n","o","p","q","r","s","t","u","v","w","x","y","z","é","à","ç">>
DIGITS == {"0","1","2","3","4","5","6","7","8","9"}
ACCENTED == {"à","â","é","è","ê","î","ô","û","ç","ë","ü","ï"}
WHITESPACE == {" ", "\t", "\n"}
UPPER_SET == {UPPER[i] : i \in 1..Len(UPPER)}
LETTERS == UPPER_SET \cup {LOWER[i] : i \in 1..Len(LOWER)} \cup ACCENTED

\* The ASCII punctuation characters (string.punctuation without the double
\* quote, the backslash and the backquote, which a TLA+ string cannot hold).
PUNCTUATION == {"!", "#", "$", "%", "&", "'", "(", ")", "*", "+", ",",
                "-", ".", "/", ":", ";", "<", "=", ">", "?", "@", "[",
                "]", "^", "_", "{", "|", "}", "~"}

\* str.lower() on one character.
LowerChar(c) ==
    IF c \in UPPER_SET
    THEN LOWER[CHOOSE i \in 1..Len(UPPER) : UPPER[i] = c]
    ELSE c

\* \w of a str pattern: letters, digits and the underscore.
IsWordChar(c) == c \in LETTERS \/ c \in DIGITS \/ c = "_"

\* The class [^\w\sàâéèêîôûçëüï'-] matches every character that is not kept.
IsKept(c) ==
    IsWordChar(c) \/ c \in WHITESPACE \/ c \in ACCENTED \/ c \in {"'", "-"}

\* ------------------------------------------------------------ str methods

lower(text) == [i \in 1..Len(text) |-> LowerChar(text[i])]

\* re.sub(r"[^\w\sàâéèêîôûçëüï'-]", " ", text)
re_sub(text) == [i \in 1..Len(text) |-> IF IsKept(text[i]) THEN text[i] ELSE " "]

\* str.split(): the maximal runs of non-whitespace characters, in order.
RECURSIVE SplitFrom(_, _, _, _)
SplitFrom(text, i, word, out) ==
    IF i > Len(text)
    THEN IF Len(word) > 0 THEN Append(out, word) ELSE out
    ELSE IF text[i] \in WHITESPACE
         THEN SplitFrom(text, i + 1, <<>>,
                        IF Len(word) > 0 THEN Append(out, word) ELSE out)
         ELSE SplitFrom(text, i + 1, Append(word, text[i]), out)

split(text) == SplitFrom(text, 1, <<>>, <<>>)

\* str.strip(): leading and trailing whitespace removed.
RECURSIVE LStrip(_)
LStrip(text) ==
    IF Len(text) > 0 /\ text[1] \in WHITESPACE THEN LStrip(Tail(text)) ELSE text

RECURSIVE RStrip(_)
RStrip(text) ==
    IF Len(text) > 0 /\ text[Len(text)] \in WHITESPACE
    THEN RStrip(SubSeq(text, 1, Len(text) - 1))
    ELSE text

strip(text) == RStrip(LStrip(text))

\* sep.join(parts)
RECURSIVE join(_, _)
join(sep, parts) ==
    IF Len(parts) = 0 THEN <<>>
    ELSE IF Len(parts) = 1 THEN parts[1]
    ELSE parts[1] \o sep \o join(sep, Tail(parts))

\* a in b, for two str: a occurs in b as a contiguous run.
IsSubstring(a, b) ==
    \E k \in 0..(Len(b) - Len(a)) : SubSeq(b, k + 1, k + Len(a)) = a

\* x in xs, for a list xs.
InList(x, xs) == \E k \in 1..Len(xs) : xs[k] = x

\* [x for x in xs if keep(x)]
RECURSIVE LongerThan(_, _)
LongerThan(words, n) ==
    IF Len(words) = 0 THEN <<>>
    ELSE IF Len(words[1]) > n
         THEN <<words[1]>> \o LongerThan(Tail(words), n)
         ELSE LongerThan(Tail(words), n)

\* ------------------------------------------------------------ tokenize

\* A tokenizer whose length filter keeps one-character tokens (len(t) > 0).
tokenize_keeps_single(text) ==
    LongerThan(split(re_sub(lower(OrElse(text, <<>>)))), 0)

\* tokenize(text); text is an optional str.
tokenize(text) ==
    LongerThan(split(re_sub(lower(OrElse(text, <<>>)))), 1)

\* ------------------------------------------------------------ scoring

\* 1.0 and 0.5, in units of 0.5.
EXACT == 2
APPROX == 1

MATCH_THRESHOLD == 2
SUGGEST_COUNT == 3

\* A score in units of 0.5 against the threshold: score >= MATCH_THRESHOLD.
AtLeastThreshold(score) == score >= 2 * MATCH_THRESHOLD

\* The text score_row_by_overlap builds from a row.
RowText(row) ==
    LET t1 == IF Truthy(Get(row, "question_examples"))
              THEN join(<<" ">>, Val(row["question_examples"])) \o <<" ">>
              ELSE <<>>
        t2 == IF Truthy(Get(row, "tags"))
              THEN t1 \o join(<<" ">>, Val(row["tags"])) \o <<" ">>
              ELSE t1
    IN  IF Truthy(Get(row, "intent")) THEN t2 \o Val(row["intent"]) ELSE t2

\* The inner loop without its break: 0.5 for every row token that matches.
RECURSIVE ApproxScan_no_break(_, _, _)
ApproxScan_no_break(t, tokens, k) ==
    IF k > Len(tokens) THEN 0
    ELSE (IF IsSubstring(t, tokens[k]) \/ IsSubstring(tokens[k], t)
          THEN APPROX ELSE 0) + ApproxScan_no_break(t, tokens, k + 1)

\* for tk in tokens: if t in tk or tk in t: score += 0.5; break
RECURSIVE ApproxScan(_, _, _)
ApproxScan(t, tokens, k) ==
    IF k > Len(tokens) THEN 0
    ELSE IF IsSubstring(t, tokens[k]) \/ IsSubstring(tokens[k], t)
         THEN APPROX
         ELSE ApproxScan(t, tokens, k + 1)

\* A loop body that adds 1.0 for every occurrence of t among the row tokens.
TokenScore_per_occurrence(t, tokens) ==
    IF InList(t, tokens)
    THEN EXACT * Cardinality({k \in 1..Len(tokens) : tokens[k] = t})
    ELSE ApproxScan(t, tokens, 1)

\* The body of the loop over query_tokens: what one token adds to the score.
TokenScore(t, tokens) ==
    IF InList(t, tokens) THEN EXACT ELSE ApproxScan(t, tokens, 1)

RECURSIVE ScoreLoop(_, _, _, _)
ScoreLoop(query_tokens, tokens, i, score) ==
    IF i > Len(query_tokens) THEN score
    ELSE ScoreLoop(query_tokens, tokens, i + 1,
                   score + TokenScore(query_tokens[i], tokens))

score_row_by_overlap(query_tokens, row) ==
    ScoreLoop(query_tokens, tokenize(Some(RowText(row))), 1, 0)

\* ------------------------------------------------------------ matching

\* A sort that is not stable: a pair goes before the pairs of equal score.
RECURSIVE InsertDesc_unstable(_, _)
InsertDesc_unstable(sorted, pair) ==
    IF Len(sorted) = 0 THEN <<pair>>
    ELSE IF sorted[1][1] > pair[1]
         THEN <<sorted[1]>> \o InsertDesc_unstable(Tail(sorted), pair)
         ELSE <<pair>> \o sorted

\* One step of a stable descending sort: pair goes after every pair whose
\* score is greater than or equal to its own.
RECURSIVE InsertDesc(_, _)
InsertDesc(sorted, pair) ==
    IF Len(sorted) = 0 THEN <<pair>>
    ELSE IF sorted[1][1] >= pair[1]
         THEN <<sorted[1]>> \o InsertDesc(Tail(sorted), pair)
         ELSE <<pair>> \o sorted

\* scored.sort(key=lambda x: x[0], reverse=True): list.sort is stable, and
\* with reverse=True pairs of equal key keep their original order.
RECURSIVE SortFrom(_, _, _)
SortFrom(scored, i, sorted) ==
    IF i > Len(scored) THEN sorted
    ELSE SortFrom(scored, i + 1, InsertDesc(sorted, scored[i]))

sort_reverse(scored) == SortFrom(scored, 1, <<>>)

\* The update of best with >= in place of >: the last row of a tie wins.
BestAfter_last_wins(cur, s, row) ==
    IF s >= cur.score THEN [score |-> s, row |-> Some(row)] ELSE cur

\* if s > best["score"]: best = {"score": s, "row": row}
BestAfter(cur, s, row) ==
    IF s > cur.score THEN [score |-> s, row |-> Some(row)] ELSE cur

\* The loop of simple_match over faq_rows.
RECURSIVE MatchLoop(_, _, _, _, _)
MatchLoop(qtokens, rows, i, cur, scored) ==
    IF i > Len(rows) THEN [best |-> cur, scored |-> scored]
    ELSE LET s == score_row_by_overlap(qtokens, rows[i])
         IN  MatchLoop(qtokens, rows, i + 1, BestAfter(cur, s, rows[i]),
                       Append(scored, <<s, rows[i]>>))

\* simple_match(query, faq_rows): the pair (best, scored) as a record.
simple_match(query, rows) ==
    LET r == MatchLoop(tokenize(Some(query)), rows, 1,
                       [score |-> 0, row |-> None], <<>>)
    IN  [best |-> r.best, ranked |-> sort_reverse(r.scored)]

\* ------------------------------------------------------------ handle_message

DEFAULT_ANSWER == "Désolé, je n'ai pas de réponse prête."
\* (the source writes a long dash and a curly apostrophe here)
FALLBACK_ANSWER == "Désolé - je n'ai pas trouvé de réponse précise à ta question."
FALLBACK_NOTE == "Tu peux reformuler ou choisir une question suggérée."

Min(a, b) == IF a < b THEN a ELSE b

\* Truth value of best["row"]: None and the empty dict are false.
RowTruthy(o) == ~IsNone(o) /\ DOMAIN Val(o) # {}

\* The suggestion the fallback loop appends for one ranked row.
Suggestion(row) ==
    LET examples == OrElse(Get(row, "question_examples"), <<>>)
    IN  IF Len(examples) > 0
        THEN examples[1]
        ELSE OrElse(Get(row, "intent"), <<>>)

\* A loop that always appends SUGGEST_COUNT suggestions, empty ones past the
\* end of the ranked list.
Suggestions_padded(rk) ==
    [k \in 1..SUGGEST_COUNT |->
        IF k <= Len(rk) THEN Suggestion(rk[k][2]) ELSE <<>>]

\* for score, row in ranked[:SUGGEST_COUNT]: suggestions.append(...)
Suggestions(rk) ==
    [k \in 1..Min(SUGGEST_COUNT, Len(rk)) |-> Suggestion(rk[k][2])]

\* The condition of the found branch with > in place of >=.
IsFound_strict(b) ==
    RowTruthy(b.row) /\ b.score > 2 * MATCH_THRESHOLD

\* if best["row"] and match_score >= MATCH_THRESHOLD
IsFound(b) ==
    RowTruthy(b.row) /\ AtLeastThreshold(b.score)

\* A fallback that lists every ranked row, not the first SUGGEST_COUNT.
FallbackPayload_all(b, rk) ==
    [answer |-> Some(FALLBACK_ANSWER),
     found |-> FALSE,
     suggested_questions |-> [k \in 1..Len(rk) |-> Suggestion(rk[k][2])],
     note |-> FALLBACK_NOTE,
     match_score |-> b.score]

\* The else branch of handle_message.
FallbackPayload(b, rk) ==
    [answer |-> Some(FALLBACK_ANSWER),
     found |-> FALSE,
     suggested_questions |-> Suggestions(rk),
     note |-> FALLBACK_NOTE,
     match_score |-> b.score]

\* The found branch of handle_message.
FoundPayload(b) ==
    [answer |-> GetDefault(Val(b.row), "answer", DEFAULT_ANSWER),
     found |-> TRUE,
     intent |-> Get(Val(b.row), "intent"),
     match_score |-> b.score]

\* response_payload, from the result of simple_match.
ResponsePayload(b, rk) ==
    IF IsFound(b) THEN FoundPayload(b) ELSE FallbackPayload(b, rk)

\* The transcript handed to insert_conversation (the two timestamps are read
\* from the clock and carry no state of the program; they are left out).
Transcript(user_id, text, rp) ==
    [user_id |-> user_id,
     messages |-> <<[from |-> "user", text |-> Some(text)],
                    [from |-> "bot", text |-> rp.answer]>>]

\* ------------------------------------------------------------ inputs

\* The texts the inputs are built from, as sequences of characters.
T_refund == <<"r","e","f","u","n","d">>
T_refun == <<"r","e","f","u","n">>
T_refunds == <<"r","e","f","u","n","d","s">>
T_money == <<"m","o","n","e","y">>
T_want == <<"w","a","n","t">>
T_pay == <<"p","a","y">>
T_how_do_i_get_a_refund == <<"H","o","w"," ","d","o"," ","I"," ","g","e","t"," ","a"," ","r","e","f","u","n","d","?">>
T_money_back == <<"m","o","n","e","y"," ","b","a","c","k">>
T_refund_now == <<"R","e","f","u","n","d"," ","n","o","w","!">>
T_i_want_a_refund_please == <<"I"," ","w","a","n","t"," ","a"," ","r","e","f","u","n","d"," ","p","l","e","a","s","e">>
T_refun_money == <<"r","e","f","u","n"," ","m","o","n","e","y">>
T_refund_refund_money == <<"r","e","f","u","n","d"," ","r","e","f","u","n","d"," ","m","o","n","e","y">>
T_refunds_refunds == <<"r","e","f","u","n","d","s",","," ","r","e","f","u","n","d","s">>
T_padded == <<" "," ","R","e","f","u","n","d"," ","M","O","N","E","Y","\n">>
T_bangs == <<"!","?">>
T_blank == <<" ","\t"," ">>

\* The rows a knowledge base is drawn from: the refund row of the scenario, a
\* row with an empty examples list, a null tags value and no answer key, a
\* row with neither intent nor examples, and a row with two examples and a
\* null answer.
ROWS == <<
    [intent |-> Some(T_refund),
     tags |-> Some(<<T_refund, T_money>>),
     question_examples |-> Some(<<T_how_do_i_get_a_refund>>),
     answer |-> Some("Contact support.")],
    [intent |-> Some(T_refunds),
     question_examples |-> Some(<<>>),
     tags |-> None],
    [tags |-> Some(<<T_money, T_refunds>>),
     answer |-> Some("Use the refund form.")],
    [intent |-> Some(T_pay),
     question_examples |-> Some(<<T_money_back, T_refund_now>>),
     answer |-> None]
>>

\* The message of a request.
MESSAGES == <<T_i_want_a_refund_please, T_refun_money,
              T_refund_refund_money, T_refunds_refunds, T_padded, T_bangs,
              T_blank, <<>> >>

USER_IDS == <<None, Some("u1")>>

\* The longest knowledge base fetch_faq returns.
MaxRows == 4

\* The knowledge bases: every sequence of at most MaxRows rows of ROWS.
KnowledgeBases ==
    UNION {{[k \in 1..n |-> ROWS[idx[k]]] : idx \in [1..n -> 1..Len(ROWS)]}
           : n \in 0..MaxRows}

\* ------------------------------------------------------------ the request

InitHandler ==
    /\ pc = "idle"
    /\ payload = None
    /\ message_text = None
    /\ faq_rows = None
    /\ best = None
    /\ ranked = None
    /\ response_payload = None
    /\ status = 0
    /\ returned = None
    /\ fetch_raised = FALSE
    /\ insert_raised = FALSE
    /\ conversations = <<>>

InitTokenizerIdle == tk_text = None /\ tk_out = None
InitScorerIdle == sc_query = <<>> /\ sc_row = <<>> /\ sc_out = None

\* handle_message up to its first await: the request is refused with 400 when
\* the message is empty or blank, else the stripped message is kept.
Receive ==
    /\ pc = "idle"
    /\ \E m \in 1..Len(MESSAGES), u \in 1..Len(USER_IDS) :
        LET p == [user_id |-> USER_IDS[u], message |-> MESSAGES[m]]
        IN  /\ payload' = Some(p)
            /\ IF Len(p.message) = 0 \/ Len(strip(p.message)) = 0
               THEN /\ status' = 400
                    /\ pc' = "done"
                    /\ message_text' = message_text
               ELSE /\ message_text' = Some(strip(p.message))
                    /\ pc' = "fetch"
                    /\ status' = status
    /\ UNCHANGED <<faq_rows, best, ranked, response_payload, returned,
                   fetch_raised, insert_raised, conversations, tk_vars,
                   sc_vars>>

\* A handler that answers from an empty knowledge base when the fetch fails.
FetchRaises_answers ==
    /\ pc = "fetch"
    /\ \E m \in {simple_match(Val(message_text), <<>>)} :
           /\ faq_rows' = Some(<<>>)
           /\ best' = Some(m.best)
           /\ ranked' = Some(m.ranked)
           /\ response_payload' = Some(ResponsePayload(m.best, m.ranked))
    /\ fetch_raised' = TRUE
    /\ returned' = response_payload'
    /\ status' = 200
    /\ pc' = "done"
    /\ UNCHANGED <<payload, message_text, insert_raised, conversations,
                   tk_vars, sc_vars>>

\* fetch_faq raises (transport error, timeout, raise_for_status): 502.
FetchRaises ==
    /\ pc = "fetch"
    /\ fetch_raised' = TRUE
    /\ status' = 502
    /\ pc' = "done"
    /\ UNCHANGED <<payload, message_text, faq_rows, best, ranked,
                   response_payload, returned, insert_raised, conversations,
                   tk_vars, sc_vars>>

\* fetch_faq returns rows: matching and the response payload, up to the
\* await of insert_conversation.  (\E over a one-element set binds the
\* result of simple_match, so that it is computed once.)
FetchReturns ==
    /\ pc = "fetch"
    /\ \E rows \in KnowledgeBases :
        \E m \in {simple_match(Val(message_text), rows)} :
            /\ faq_rows' = Some(rows)
            /\ best' = Some(m.best)
            /\ ranked' = Some(m.ranked)
            /\ response_payload' = Some(ResponsePayload(m.best, m.ranked))
    /\ pc' = "log"
    /\ UNCHANGED <<payload, message_text, status, returned, fetch_raised,
                   insert_raised, conversations, tk_vars, sc_vars>>

\* insert_conversation returns: the transcript is stored, the payload returned.
InsertReturns ==
    /\ pc = "log"
    /\ conversations' = Append(conversations,
           Transcript(Val(payload).user_id, Val(message_text),
                      Val(response_payload)))
    /\ returned' = response_payload
    /\ status' = 200
    /\ pc' = "done"
    /\ UNCHANGED <<payload, message_text, faq_rows, best, ranked,
                   response_payload, fetch_raised, insert_raised, tk_vars,
                   sc_vars>>

\* A handler that lets the exception of insert_conversation through: 500.
InsertRaises_propagates ==
    /\ pc = "log"
    /\ insert_raised' = TRUE
    /\ status' = 500
    /\ pc' = "done"
    /\ UNCHANGED <<payload, message_text, faq_rows, best, ranked,
                   response_payload, returned, fetch_raised, conversations,
                   tk_vars, sc_vars>>

\* insert_conversation raises: except Exception: pass, the payload returned.
InsertRaises ==
    /\ pc = "log"
    /\ insert_raised' = TRUE
    /\ returned' = response_payload
    /\ status' = 200
    /\ pc' = "done"
    /\ UNCHANGED <<payload, message_text, faq_rows, best, ranked,
                   response_payload, fetch_raised, conversations, tk_vars,
                   sc_vars>>

Init == InitHandler /\ InitTokenizerIdle /\ InitScorerIdle

Next == Receive \/ FetchRaises \/ FetchReturns \/ InsertReturns \/ InsertRaises

Spec == Init /\ [][Next]_vars

\* ------------------------------------------------------------ tokenizer runs

\* The characters of the tokenizer's inputs: a letter, a capital, the three
\* punctuation characters the pattern keeps, two it replaces, and a space.
TokAlphabet == {"a", "B", "-", "'", "_", "!", ".", " "}

\* The longest text handed to the tokenizer.
MaxLen == 3

TokInputs ==
    {None} \cup {Some(t) : t \in UNION {[1..n -> TokAlphabet] : n \in 0..MaxLen}}

InitTokenize ==
    /\ InitHandler
    /\ InitScorerIdle
    /\ tk_text \in TokInputs
    /\ tk_out = None

\* One call of tokenize.
Tokenize ==
    /\ IsNone(tk_out)
    /\ tk_out' = Some(tokenize(tk_text))
    /\ UNCHANGED <<handler_vars, tk_text, sc_vars>>

NextTokenize == Tokenize

SpecTokenize == InitTokenize /\ [][NextTokenize]_vars

\* ------------------------------------------------------------ scorer runs

\* The tokens a query is made of.
VOCABULARY == <<T_refund, T_refun, T_refunds, T_money, T_want>>

\* The longest query_tokens list.
MaxQuery == 3

QueryTokenLists ==
    UNION {{[k \in 1..n |-> VOCABULARY[idx[k]]]
            : idx \in [1..n -> 1..Len(VOCABULARY)]} : n \in 0..MaxQuery}

InitScore ==
    /\ InitHandler
    /\ InitTokenizerIdle
    /\ sc_query \in QueryTokenLists
    /\ \E r \in 1..Len(ROWS) : sc_row = ROWS[r]
    /\ sc_out = None

\* One call of score_row_by_overlap.
Score ==
    /\ IsNone(sc_out)
    /\ sc_out' = Some(score_row_by_overlap(sc_query, sc_row))
    /\ UNCHANGED <<handler_vars, tk_vars, sc_query, sc_row>>

NextScore == Score

SpecScore == InitScore /\ [][NextScore]_vars

\* ------------------------------------------------------------ properties

\* The scores of the rows of a knowledge base for a query, in input order.
RECURSIVE ScoresFrom(_, _, _, _)
ScoresFrom(qtokens, rows, i, out) ==
    IF i > Len(rows) THEN out
    ELSE ScoresFrom(qtokens, rows, i + 1,
                    Append(out, score_row_by_overlap(qtokens, rows[i])))

ScoresOf(query, rows) == ScoresFrom(tokenize(Some(query)), rows, 1, <<>>)

Max(S) == CHOOSE x \in S : \A y \in S : y <= x

\* C1: the response is found exactly when the best row is not None and the
\* best score is at least the threshold 2 (4 units of 0.5): a best score of
\* exactly 2 is found, 1.5 is the fallback, and 0 is never found.
C1_FoundIffThreshold ==
    ~IsNone(response_payload) =>
        LET b == Val(best)
            rp == Val(response_payload)
        IN  /\ rp.found <=> (~IsNone(b.row) /\ b.score >= 4)
            /\ b.score = 4 => rp.found
            /\ b.score = 3 => ~rp.found
            /\ b.score = 0 => ~rp.found

C1_Witness ==
    /\ ~IsNone(response_payload)
    /\ Val(best).score = 4
    /\ Val(response_payload).found

\* The request of the refund scenario: the single refund row and the query
\* "I want a refund please", once the response payload is built.
RefundScenario ==
    /\ ~IsNone(response_payload)
    /\ Val(payload).message = T_i_want_a_refund_please
    /\ Val(faq_rows) = <<ROWS[1]>>

\* C2 as stated: in the refund scenario the score is at least 2 and the
\* response is found with the answer "Contact support.".
C2_Original ==
    RefundScenario =>
        /\ Val(best).score >= 4
        /\ Val(response_payload).found
        /\ Val(response_payload).answer = Some("Contact support.")

\* C2 as amended: in the refund scenario only "refund" of the three query
\* tokens want, refund, please matches, once, so the score is 1.0 (2 units),
\* the response is not found and suggests "How do I get a refund?".
C2_ScenarioScoresOne ==
    RefundScenario =>
        /\ Val(best).score = 2
        /\ Val(response_payload).match_score = 2
        /\ ~Val(response_payload).found
        /\ Val(response_payload).suggested_questions
               = <<T_how_do_i_get_a_refund>>

C2_Witness ==
    /\ RefundScenario
    /\ pc = "done"
    /\ status = 200
    /\ ~Val(returned).found

\* C3: when insert_conversation raises, the request still ends with status
\* 200 and returns the payload computed before the log attempt, the same
\* payload a successful log write returns.
C3_LogFailureSwallowed ==
    (pc = "done" /\ ~IsNone(response_payload)) =>
        /\ status = 200
        /\ returned = response_payload
        /\ Val(returned) = ResponsePayload(Val(best), Val(ranked))
        /\ insert_raised => Len(conversations) = 0

C3_Witness ==
    /\ pc = "done"
    /\ insert_raised
    /\ status = 200
    /\ ~IsNone(returned)
    /\ Val(returned).found

\* C4: when fetch_faq raises, the request ends with status 502 and no answer
\* payload: nothing is matched, no response is built, nothing is logged.
C4_FetchFailureIs502 ==
    fetch_raised =>
        /\ pc = "done"
        /\ status = 502
        /\ IsNone(returned)
        /\ IsNone(faq_rows)
        /\ IsNone(best)
        /\ IsNone(ranked)
        /\ IsNone(response_payload)
        /\ Len(conversations) = 0

C4_Witness ==
    /\ fetch_raised
    /\ status = 502
    /\ ~IsNone(message_text)

\* C5: for a non-empty knowledge base whose maximum score is positive, best
\* is the earliest row in input order that attains the maximum score, and
\* no row scores more than best.
C5_BestIsEarliestMax ==
    (~IsNone(best) /\ Len(Val(faq_rows)) > 0) =>
        \A sc \in {ScoresOf(Val(message_text), Val(faq_rows))} :
            LET rows == Val(faq_rows)
                top == Max({sc[i] : i \in 1..Len(rows)})
                first == CHOOSE i \in 1..Len(rows) :
                            /\ sc[i] = top
                            /\ \A j \in 1..(i - 1) : sc[j] < top
            IN  top > 0 =>
                    /\ Val(best).score = top
                    /\ Val(best).row = Some(rows[first])
                    /\ \A i \in 1..Len(rows) : sc[i] <= Val(best).score

\* A tie between two different rows, the second of the input and the third.
C5_Witness ==
    /\ ~IsNone(best)
    /\ Val(payload).message = T_padded
    /\ Val(faq_rows) = <<ROWS[2], ROWS[4], ROWS[1]>>
    /\ Val(best).score = 4
    /\ Val(best).row = Some(ROWS[4])

\* C6: the ranked list holds one (score, row) pair per input row, by score
\* descending, rows of equal score in their input order: the pair of input
\* row i stands after the pairs of greater score and the pairs of equal score
\* of earlier rows.
C6_RankedIsStableSort ==
    ~IsNone(ranked) =>
        \A sc \in {ScoresOf(Val(message_text), Val(faq_rows))} :
            LET rows == Val(faq_rows)
                rk == Val(ranked)
                n == Len(rows)
                pos(i) == 1 + Cardinality({j \in 1..n : sc[j] > sc[i]})
                            + Cardinality({j \in 1..(i - 1) : sc[j] = sc[i]})
            IN  /\ Len(rk) = n
                /\ \A i \in 1..n : rk[pos(i)] = <<sc[i], rows[i]>>
                /\ \A k \in 1..(n - 1) : rk[k][1] >= rk[k + 1][1]

\* Two different rows of equal score, and a third of a smaller score first
\* in the input.
C6_Witness ==
    /\ ~IsNone(ranked)
    /\ Val(payload).message = T_padded
    /\ Val(faq_rows) = <<ROWS[2], ROWS[4], ROWS[1]>>
    /\ Val(ranked) = <<<<4, ROWS[4]>>, <<4, ROWS[1]>>, <<1, ROWS[2]>>>>

\* C7: for an empty knowledge base and any query, the best score is 0, the
\* best row is None and the ranked list is empty; the response is not found
\* and has no suggestions.
C7_EmptyRows ==
    (~IsNone(faq_rows) /\ Len(Val(faq_rows)) = 0) =>
        /\ Val(best).score = 0
        /\ IsNone(Val(best).row)
        /\ Len(Val(ranked)) = 0
        /\ ~Val(response_payload).found
        /\ Len(Val(response_payload).suggested_questions) = 0
        /\ Val(response_payload).match_score = 0

C7_Witness ==
    /\ ~IsNone(faq_rows)
    /\ Len(Val(faq_rows)) = 0
    /\ pc = "done"
    /\ status = 200
    /\ ~Val(returned).found

\* The suggestion the claim describes for one row: the first example when
\* there are examples, else the intent, else the empty string.
ExpectedSuggestion(row) ==
    IF /\ "question_examples" \in DOMAIN row
       /\ ~IsNone(row.question_examples)
       /\ Len(Val(row.question_examples)) > 0
    THEN Val(row.question_examples)[1]
    ELSE IF "intent" \in DOMAIN row /\ ~IsNone(row.intent)
         THEN Val(row.intent)
         ELSE <<>>

\* C10: a not-found response carries found = false, the score of the best
\* candidate, and one suggestion for each of the first min(3, number of
\* rows) entries of the ranked list, in ranked order.
C10_FallbackSuggestions ==
    (~IsNone(response_payload) /\ ~Val(response_payload).found) =>
        LET rp == Val(response_payload)
            rk == Val(ranked)
            n == Min(3, Len(Val(faq_rows)))
        IN  /\ Len(rp.suggested_questions) = n
            /\ \A k \in 1..n :
                   rp.suggested_questions[k] = ExpectedSuggestion(rk[k][2])
            /\ rp.match_score = Val(best).score
            /\ rp.match_score < 4

\* Four rows, three suggestions: an intent, a first example and an empty one.
C10_Witness ==
    /\ ~IsNone(response_payload)
    /\ ~Val(response_payload).found
    /\ Len(Val(faq_rows)) = 4
    /\ Val(response_payload).match_score = 3
    /\ Val(response_payload).suggested_questions
           = <<<<>>, T_money_back, T_refunds>>

\* The punctuation characters the tokenizer's pattern keeps.
KEPT_PUNCTUATION == {"'", "-", "_"}

OnlyPunctuation(text) ==
    \A i \in 1..Len(text) : text[i] \in PUNCTUATION \cup WHITESPACE

AdjacentKept(text) ==
    \E i \in 1..(Len(text) - 1) :
        text[i] \in KEPT_PUNCTUATION /\ text[i + 1] \in KEPT_PUNCTUATION

\* C8 as stated: tokenize returns the empty sequence for None, the empty
\* string and every string of punctuation characters and whitespace.
C8_Original ==
    (~IsNone(tk_out) /\ (IsNone(tk_text) \/ OnlyPunctuation(Val(tk_text)))) =>
        Len(Val(tk_out)) = 0

\* C8 as amended: tokenize returns the empty sequence for None, the empty
\* string and every string of punctuation characters and whitespace in which
\* no two of the kept characters ' - _ are adjacent; a run of two or more of
\* them is returned as a token.
C8_PunctuationOnly ==
    (~IsNone(tk_out) /\ (IsNone(tk_text) \/ OnlyPunctuation(Val(tk_text)))) =>
        (Len(Val(tk_out)) = 0
            <=> (IsNone(tk_text) \/ ~AdjacentKept(Val(tk_text))))

C8_Witness ==
    /\ tk_text = Some(<<"-", "!", "'">>)
    /\ ~IsNone(tk_out)
    /\ Len(Val(tk_out)) = 0

\* What the claim gives one query token against the row tokens: 1.0 when it
\* is among them, else 0.5 when one of them contains it or is contained in
\* it, else 0.
Contribution(t, tokens) ==
    IF \E j \in 1..Len(tokens) : tokens[j] = t THEN 2
    ELSE IF \E j \in 1..Len(tokens) :
                IsSubstring(t, tokens[j]) \/ IsSubstring(tokens[j], t)
         THEN 1
         ELSE 0

RECURSIVE SumContributions(_, _)
SumContributions(query_tokens, tokens) ==
    IF Len(query_tokens) = 0 THEN 0
    ELSE Contribution(query_tokens[1], tokens)
             + SumContributions(Tail(query_tokens), tokens)

\* C9: the score is the sum, over the query tokens with their repetitions,
\* of one contribution per token (1.0 exact, else 0.5 once for a substring
\* match, else 0); the empty query scores 0.
C9_ScoreIsSum ==
    ~IsNone(sc_out) =>
        /\ Val(sc_out) = SumContributions(sc_query,
                                          tokenize(Some(RowText(sc_row))))
        /\ Len(sc_query) = 0 => Val(sc_out) = 0

\* "refun" is inside three row tokens and counts 0.5 once; "refund" is exact.
C9_Witness ==
    /\ sc_query = <<T_refun, T_refund>>
    /\ sc_row = ROWS[1]
    /\ sc_out = Some(3)

====
